---- MODULE Spec2Model ----
(***************************************************************************)
(* Sensibo AC controller: the keyboard hotkey decoder (KeyboardListener),  *)
(* the command orchestrator (ACController: withRetry and the event         *)
(* handlers), and the speech feedback sink (VoiceFeedback).                *)
(***************************************************************************)
EXTENDS Integers, Sequences, FiniteSets, TLC

(***************************************************************************)
(* Bounds of the model.                                                    *)
(***************************************************************************)
\* Date.now() at construction, in ms (any epoch time is far above 1000).
StartTime == 5000
\* the clock stops advancing here
MaxTime == 7002
\* number of handler invocations (emitted commands) that are modelled
MaxCommands == 2

(***************************************************************************)
(* Program constants.                                                      *)
(***************************************************************************)
\* keyboard-listener.ts:83  currentTime - lastKeyTime > 1000
IdleThreshold == 1000

(***************************************************************************)
(* Raw key names delivered by the global key listener.                     *)
(***************************************************************************)
CtrlKeys == {"LEFT CTRL", "RIGHT CTRL"}
AltKeys == {"LEFT ALT", "RIGHT ALT"}
RawKeys ==
  CtrlKeys \cup AltKeys \cup
  {"NUMPAD 0", "NUMPAD 1", "NUMPAD 2", "NUMPAD 5", "NUMPAD DOT", "NUMPAD DELETE",
   "PAUSE", "UNKNOWN", "left ctrl", "numpad 2"}
KeyStates == {"DOWN", "UP"}

\* String(keyName).toUpperCase()
ToUpperCase(keyName) ==
  CASE keyName = "left ctrl" -> "LEFT CTRL"
    [] keyName = "numpad 2" -> "NUMPAD 2"
    [] OTHER -> keyName

\* key.match(/^NUMPAD (\d)$/): the captured digit, or "null" when there is no match
NumpadMatch(key) ==
  CASE key = "NUMPAD 0" -> "0"
    [] key = "NUMPAD 1" -> "1"
    [] key = "NUMPAD 2" -> "2"
    [] key = "NUMPAD 3" -> "3"
    [] key = "NUMPAD 4" -> "4"
    [] key = "NUMPAD 5" -> "5"
    [] key = "NUMPAD 6" -> "6"
    [] key = "NUMPAD 7" -> "7"
    [] key = "NUMPAD 8" -> "8"
    [] key = "NUMPAD 9" -> "9"
    [] OTHER -> "null"

DigitChars == {"0", "1", "2", "3", "4", "5", "6", "7", "8", "9"}

DigitValue(c) ==
  CASE c = "0" -> 0
    [] c = "1" -> 1
    [] c = "2" -> 2
    [] c = "3" -> 3
    [] c = "4" -> 4
    [] c = "5" -> 5
    [] c = "6" -> 6
    [] c = "7" -> 7
    [] c = "8" -> 8
    [] c = "9" -> 9

\* mutant: the digits are combined in the reverse of their arrival order
parseInt_Reversed(buf) ==
  IF Len(buf) = 2 THEN 10 * DigitValue(buf[2]) + DigitValue(buf[1])
  ELSE IF Len(buf) = 1 THEN DigitValue(buf[1])
  ELSE 0

\* parseInt(buffer.join(''), 10) for a buffer of decimal digit characters
RECURSIVE parseInt(_)
parseInt(buf) ==
  IF buf = <<>> THEN 0
  ELSE 10 * parseInt(SubSeq(buf, 1, Len(buf) - 1)) + DigitValue(buf[Len(buf)])

(***************************************************************************)
(* Configuration (ACController.validateEnvironment, defaults).             *)
(***************************************************************************)
minTemp == 16
maxTemp == 30
maxRetries == 3
retryDelay == 2000
\* Math.min(..., 10000) in withRetry
MaxBackoff == 10000
\* Math.random() * 1000 lies in [0, 1000): the draws that are modelled
Jitters == {0, 999}
\* validateEnvironment: MAX_RETRIES must be a number between 1 and 10
MaxRetriesLimit == 10
\* validateEnvironment: RETRY_DELAY must be a number between 500 and 30000
MinRetryDelay == 500
MaxRetryDelay == 30000
\* the factor of Math.random() in withRetry
JitterRange == 1000
\* stop(): "Wait briefly for cleanup to complete", then the caller's process.exit
StopWait == 1000
\* the values of RETRY_DELAY and the jitter draws for which the backoff is computed
RetryDelays == {MinRetryDelay, 1000, retryDelay, 2500, 5000, 9001, MaxBackoff, MaxRetryDelay}
JitterDraws == Jitters \cup {1, 500}

(***************************************************************************)
(* Commands (the events of the KeyboardListener emitter).                  *)
(***************************************************************************)
Cmd(name, arg) == [name |-> name, arg |-> arg]
\* payloads of setTemperature drawn when the emitter is driven directly
TempInputs == {15, 16, 31}
Commands ==
  {Cmd("toggle", 0), Cmd("voiceStatus", 0), Cmd("powerOn", 0), Cmd("powerOff", 0)}
    \cup {Cmd("setTemperature", n) : n \in TempInputs}

VARIABLES
  \* KeyboardListener
  ctrlPressed, altPressed, temperatureBuffer, lastKeyTime,
  \* Date.now()
  now,
  \* observation of the last raw event: its key, state and the decoder state before it
  lastEvent,
  \* the commands emitted by the last step
  emitted,
  \* progress of the scenario "Ctrl UP with a pending digit, Ctrl DOWN, digit, digit"
  trail,
  \* the last backoff computed by a withRetry loop run on its own: config.retryDelay,
  \* the attempt that failed, the jitter drawn (and the one drawn before), the delay
  sample,
  \* the keyboard as the key listener has reported it: for every tracked key whether
  \* its last event was a DOWN ("down"), an UP after a DOWN ("up"), an UP while no DOWN
  \* of it ever came ("never"), or none came yet ("unseen"); and whether the last
  \* event repeats the one before it
  keyboard,
  \* ACController / process
  phase, handlers, tasks,

  \* VoiceFeedback
  isSpeaking, currentSpeechProcess

decoderVars == <<ctrlPressed, altPressed, temperatureBuffer, lastKeyTime>>
observerVars == <<lastEvent, emitted, trail, sample, keyboard>>
voiceVars == <<isSpeaking, currentSpeechProcess>>
vars ==
  <<ctrlPressed, altPressed, temperatureBuffer, lastKeyTime, now, lastEvent, emitted,
    trail, sample, keyboard, phase, handlers, tasks, isSpeaking, currentSpeechProcess>>

NoEvent ==
  [key |-> "none", state |-> "none", time |-> 0, ctrl |-> FALSE, alt |-> FALSE,
   buf |-> <<>>, last |-> 0, wait |-> FALSE]

(***************************************************************************)
(* ACController: one record per running async call chain.  tasks[1] is     *)
(* start(); every later entry is one invocation of an event handler, in    *)
(* the order of the emits.                                                 *)
(*   pc      "op"    awaiting operation()                                  *)
(*           "wait"  awaiting the backoff setTimeout                       *)
(*           "speak" awaiting voiceFeedback.announce...()                  *)
(*           "done"  the async function returned                           *)
(*           "rejected" the async function threw                           *)
(*           "hung"  the awaited speak() promise will never settle         *)
(*           (a record that came to rest holds nothing but its pc)         *)
(*   attempt the loop variable of withRetry                                *)
(*   pending the remote requests of the current attempt not yet answered   *)
(*   delay   the backoffDelay of the pending wait                          *)
(*   sp      the speak() promise: "none", "call" (being called), "import"  *)
(*           (awaiting import('child_process')), "spawned" (process is     *)
(*           running), "settled"                                           *)
(*   fb, tries, fails, okAt: observations (the announce calls made, the    *)
(*           operation() calls, the failed attempts, the attempt that      *)
(*           succeeded)                                                    *)
(*   partial observation: the last attempt of the compound read failed     *)
(*           after one of its two reads had succeeded                      *)
(***************************************************************************)
NewTask(cmd) ==
  [cmd |-> cmd.name, temp |-> cmd.arg, pc |-> "new", attempt |-> 0, pending |-> {},
   delay |-> 0, sp |-> "none", fb |-> <<>>, tries |-> 0, fails |-> 0, okAt |-> 0,
   partial |-> FALSE]

StartCmd == Cmd("start", 0)

NoTask == NewTask(Cmd("none", 0))

\* the record of a call chain that will not run again
AtRest(pc) == [NoTask EXCEPT !.pc = pc]

\* the operationName argument of withRetry
OperationName(cmd) ==
  CASE cmd = "toggle" -> "Toggle power"
    [] cmd = "setTemperature" -> "Set temperature"
    [] cmd = "voiceStatus" -> "Get status"
    [] cmd = "start" -> "Initial API connection"

FailedText(cmd) ==
  CASE cmd = "toggle" -> "Toggle power failed"
    [] cmd = "setTemperature" -> "Set temperature failed"
    [] cmd = "voiceStatus" -> "Get status failed"
    [] cmd = "start" -> "Initial API connection failed"

\* sensiboAPI.togglePower(): the TogglePower action, one state-changing remote effect
togglePower == {"togglePower"}

\* the remote requests an operation issues when it is called
FirstRequests(cmd) ==
  CASE cmd = "toggle" -> togglePower
    [] cmd = "setTemperature" -> {"GET acStates"}
    [] cmd = "voiceStatus" -> {"GET acStates", "GET measurements"}
    [] cmd = "start" -> {"GET acStates"}

MutatingRequests == {"POST acStates"} \cup togglePower

Min(a, b) == IF a <= b THEN a ELSE b

RECURSIVE Pow2(_)
Pow2(n) == IF n <= 0 THEN 1 ELSE 2 * Pow2(n - 1)

\* mutant: the cap is applied before the jitter is added
backoff_CapBeforeJitter(base, attempt, jitter) ==
  Min(base * Pow2(attempt - 1), MaxBackoff) + jitter

\* Math.min(config.retryDelay * Math.pow(2, attempt - 1) + Math.random() * 1000, 10000)
backoff(base, attempt, jitter) ==
  Min(base * Pow2(attempt - 1) + jitter, MaxBackoff)

\* the backoffDelay of withRetry under the default RETRY_DELAY
backoffDelay(attempt, jitter) == backoff(retryDelay, attempt, jitter)

\* voiceFeedback.announceError / announceSuccess / announceTemperatures: all call speak()
announce(t, fn, text) ==
  [t EXCEPT !.fb = Append(@, [fn |-> fn, text |-> text]), !.pc = "speak", !.sp = "call"]

\* mutant: a failed attempt is followed at once by the next one, with no wait
Catch_NoWait(t, jitter) ==
  LET t1 == [t EXCEPT !.fails = @ + 1, !.pending = {}]
  IN IF t1.attempt = maxRetries
       THEN announce(t1, "announceError", FailedText(t1.cmd))
       ELSE [t1 EXCEPT !.pc = "op", !.attempt = @ + 1, !.tries = @ + 1,
                       !.pending = FirstRequests(t1.cmd)]

\* mutant: the exhaustion test is off by one (attempt > maxRetries)
Catch_OffByOne(t, jitter) ==
  LET t1 == [t EXCEPT !.fails = @ + 1, !.pending = {}]
  IN IF t1.attempt > maxRetries
       THEN announce(t1, "announceError", FailedText(t1.cmd))
       ELSE [t1 EXCEPT !.pc = "wait", !.delay = backoffDelay(t1.attempt, jitter)]

\* mutant: a failed compound read announces what the reads that succeeded returned
Catch_PartialAnnounce(t, jitter) ==
  LET t1 == [t EXCEPT !.fails = @ + 1, !.pending = {}]
  IN IF t1.partial /\ t1.fb = <<>>
       THEN announce(t1, "announceTemperatures", "Target temperature")
     ELSE IF t1.attempt = maxRetries
       THEN announce(t1, "announceError", FailedText(t1.cmd))
       ELSE [t1 EXCEPT !.pc = "wait", !.delay = backoffDelay(t1.attempt, jitter)]

\* the catch block of withRetry, after attempt t.attempt failed
Catch(t, jitter) ==
  LET t1 == [t EXCEPT !.fails = @ + 1, !.pending = {}]
  IN IF t1.attempt = maxRetries
       THEN announce(t1, "announceError", FailedText(t1.cmd))
       ELSE [t1 EXCEPT !.pc = "wait", !.delay = backoffDelay(t1.attempt, jitter)]

\* SensiboAPI.setTemperature: its own range check throws before any request
apiRejects(temperature) == temperature < minTemp \/ temperature > maxTemp

\* one iteration of the withRetry loop up to its first await: operation() is called
Attempt(t, jitter) ==
  LET t1 == [t EXCEPT !.tries = @ + 1, !.partial = FALSE]
  IN IF t1.cmd = "setTemperature" /\ apiRejects(t1.temp)
       THEN Catch(t1, jitter)
       ELSE [t1 EXCEPT !.pc = "op", !.pending = FirstRequests(t1.cmd)]

withRetry(t, jitter) == Attempt([t EXCEPT !.attempt = 1], jitter)

\* mutant: the bounds themselves are rejected
outOfRange_Exclusive(temperature) == temperature <= minTemp \/ temperature >= maxTemp

\* mutant: only the lower bound is checked
outOfRange_LowerOnly(temperature) == temperature < minTemp

\* the handler's range check of the 'setTemperature' event
outOfRange(temperature) == temperature < minTemp \/ temperature > maxTemp

\* the event handlers registered by setupEventHandlers, up to their first await
Handler(t, jitter) ==
  IF t.cmd = "setTemperature" /\ outOfRange(t.temp)
    THEN announce(t, "announceError", "Temperature must be between")
    ELSE withRetry(t, jitter)

HandledEvents == {"toggle", "setTemperature", "voiceStatus"}

\* mutant: the caller announces success without testing the result for null
AfterRetry_NoNullTest(t, result) ==
  CASE t.cmd = "toggle" -> announce(t, "announceSuccess", "AC turned")
    [] t.cmd = "setTemperature" -> announce(t, "announceSuccess", "Temperature set to")
    [] t.cmd = "voiceStatus" -> announce(t, "announceTemperatures", "Target temperature")
    [] t.cmd = "start" -> [t EXCEPT !.pc = "done"]

\* what the caller of withRetry does with its result ("value" or "null")
AfterRetry(t, result) ==
  IF result = "null" THEN [t EXCEPT !.pc = "done"]
  ELSE CASE t.cmd = "toggle" -> announce(t, "announceSuccess", "AC turned")
         [] t.cmd = "setTemperature" -> announce(t, "announceSuccess", "Temperature set to")
         [] t.cmd = "voiceStatus" -> announce(t, "announceTemperatures", "Target temperature")
         [] t.cmd = "start" -> [t EXCEPT !.pc = "done"]

\* mutant: `await operation()` without the return: the loop goes on
OperationResolved_NoReturn(t) ==
  IF t.attempt < maxRetries
    THEN Attempt([t EXCEPT !.okAt = t.attempt, !.attempt = @ + 1], 0)
    ELSE AfterRetry([t EXCEPT !.okAt = t.attempt, !.pending = {}], "null")

\* `return await operation()` once operation() resolved
OperationResolved(t) ==
  AfterRetry([t EXCEPT !.okAt = t.attempt, !.pending = {}], "value")

\* a remote request of the current attempt is answered successfully
Answered(t, r) ==
  IF t.cmd = "setTemperature" /\ r = "GET acStates"
    THEN [t EXCEPT !.pending = {"POST acStates"}]
  ELSE IF t.pending = {r} THEN OperationResolved(t)
  ELSE [t EXCEPT !.pending = @ \ {r}]

\* the speak() promise awaited by the task resolved
SpeakResolved(t) ==
  LET t1 == [t EXCEPT !.sp = "settled"]
  IN IF t1.fb[Len(t1.fb)].text = FailedText(t1.cmd)
       THEN AfterRetry(t1, "null")
       ELSE [t1 EXCEPT !.pc = "done"]

(***************************************************************************)
(* VoiceFeedback.  A speech process is named by the index of the task      *)
(* whose speak() call spawned it; 0 is null.                               *)
(***************************************************************************)
Voice(ts, spk, cur) == [ts |-> ts, spk |-> spk, cur |-> cur]

\* VoiceFeedback.stop(): cleanupProcess(currentSpeechProcess, 'manual_stop')
voiceStop(v) ==
  IF v.spk /\ v.cur # 0
    THEN Voice([v.ts EXCEPT ![v.cur] = AtRest("hung")], FALSE, 0)
    ELSE v

\* VoiceFeedback.speak() up to the import() it awaits, called by task i
speak(v, i) ==
  LET v1 == IF v.spk THEN voiceStop(v) ELSE v
  IN Voice([v1.ts EXCEPT ![i].sp = "import"], TRUE, v1.cur)

\* what the process does once the async function of task t has come to rest:
\*   start() resolved with a state      -> setupEventHandlers()      "started"
\*   start() got null or threw          -> process.exit(1)           "exit"
\*   a handler threw                    -> 'unhandledRejection'      "crash"
Outcome(t) ==
  CASE t.pc = "rejected" /\ t.cmd = "start" -> "exit"
    [] t.pc = "rejected" /\ t.cmd # "start" -> "crash"
    [] t.pc = "done" /\ t.cmd = "start" /\ t.okAt > 0 -> "started"
    [] t.pc = "done" /\ t.cmd = "start" /\ t.okAt = 0 -> "exit"
    [] OTHER -> "none"

\* task i has moved to ts[i]: run the speak() it called and the process-level
\* consequences (controller.stop() on an unhandled rejection)
Commit(ts, i, spk, cur) ==
  LET v0 == Voice(ts, spk, cur)
      v1 == IF ts[i].sp = "call" THEN speak(v0, i) ELSE v0
      out == Outcome(ts[i])
      v2 == IF out = "crash" THEN voiceStop(v1) ELSE v1
      rests == ts[i].pc \in {"done", "rejected"}
      ph == CASE out = "exit" -> "exited"
              [] out = "crash" -> "stopping"
              [] out = "started" /\ phase = "starting" -> "running"
              [] OTHER -> phase
      \* a backoff timer set once stop() is waiting fires after process.exit only
      cut == ts[i].pc = "wait" /\ phase = "stopping" /\ ts[i].delay >= StopWait
  IN /\ tasks' = IF rests THEN [v2.ts EXCEPT ![i] = AtRest(ts[i].pc)]
                 ELSE IF cut THEN [v2.ts EXCEPT ![i] = AtRest("cut")]
                 ELSE v2.ts
     /\ isSpeaking' = v2.spk
     /\ currentSpeechProcess' = v2.cur
     /\ phase' = ph
     /\ handlers' = CASE out = "crash" -> FALSE
                      [] out = "started" -> TRUE
                      [] OTHER -> handlers

\* mutant: stop() kills the listener but leaves the decoder as it is
DecoderStopped_StateKept == UNCHANGED decoderVars

\* KeyboardListener.stop(): flags and buffer are reset
DecoderStopped ==
  /\ ctrlPressed' = FALSE
  /\ altPressed' = FALSE
  /\ temperatureBuffer' = <<>>
  /\ UNCHANGED lastKeyTime

\* a step of task i that is no raw key event
TaskStep(i, t2, spk, cur) ==
  /\ Commit([tasks EXCEPT ![i] = t2], i, spk, cur)
  /\ IF Outcome(t2) = "crash" THEN DecoderStopped ELSE UNCHANGED decoderVars
  /\ UNCHANGED <<now, observerVars>>

Alive == phase # "exited"

(***************************************************************************)
(* Remote responses and timers                                             *)
(***************************************************************************)
\* a request of task i is answered successfully
RequestOk(i, r) ==
  /\ Alive
  /\ tasks[i].pc = "op" /\ r \in tasks[i].pending
  /\ TaskStep(i, Answered(tasks[i], r), isSpeaking, currentSpeechProcess)

\* the attempt of task t fails on request r: was another read of it already answered?
Rejected(t, r) ==
  [t EXCEPT !.partial = (t.cmd = "voiceStatus" /\ t.pending # FirstRequests(t.cmd))]

\* a request of task i fails (network error, timeout, status other than success):
\* the operation (for voiceStatus the Promise.all) rejects
RequestFail(i, r, jitter) ==
  /\ Alive
  /\ tasks[i].pc = "op" /\ r \in tasks[i].pending
  /\ TaskStep(i, Catch(Rejected(tasks[i], r), jitter), isSpeaking, currentSpeechProcess)

\* the backoff setTimeout of task i fires: the loop goes to its next iteration
TimerFires(i, jitter) ==
  /\ Alive
  /\ tasks[i].pc = "wait"
  /\ TaskStep(i, Attempt([tasks[i] EXCEPT !.attempt = @ + 1, !.delay = 0], jitter),
              isSpeaking, currentSpeechProcess)

(***************************************************************************)
(* Speech processes                                                        *)
(***************************************************************************)
\* import('child_process') resolved for task i: spawn, in the order of the calls
Spawn(i) ==
  /\ Alive
  /\ tasks[i].sp = "import"
  /\ \A j \in 1..(i - 1) : tasks[j].sp # "import"
  /\ tasks' = [tasks EXCEPT ![i].sp = "spawned"]
  /\ currentSpeechProcess' = i
  /\ UNCHANGED <<decoderVars, now, observerVars, phase, handlers, isSpeaking>>

\* the 'close' (code 0 or not) or 'error' event of the process of task i
SpeechClose(i, ok) ==
  /\ Alive
  /\ tasks[i].sp = "spawned"
  /\ IF currentSpeechProcess = i
       THEN TaskStep(i,
                     IF ok THEN SpeakResolved(tasks[i])
                     ELSE [tasks[i] EXCEPT !.sp = "settled", !.pc = "rejected"],
                     FALSE, 0)
       ELSE /\ tasks' = [tasks EXCEPT ![i] = AtRest("hung")]
            /\ UNCHANGED <<decoderVars, now, observerVars, phase, handlers, voiceVars>>

\* the 30 s timeout set for the process of task i
SpeechTimeout(i) ==
  /\ Alive
  /\ tasks[i].sp = "spawned" /\ currentSpeechProcess = i
  /\ tasks' = [tasks EXCEPT ![i] = AtRest("hung")]
  /\ isSpeaking' = FALSE
  /\ currentSpeechProcess' = 0
  /\ UNCHANGED <<decoderVars, now, observerVars, phase, handlers>>

(***************************************************************************)
(* Shutdown                                                                *)
(***************************************************************************)
\* SIGINT / SIGTERM: controller.stop() up to its 1 s wait
Stop ==
  /\ phase \in {"starting", "running"}
  /\ LET v == voiceStop(Voice(tasks, isSpeaking, currentSpeechProcess))
     IN /\ tasks' = v.ts
        /\ isSpeaking' = v.spk
        /\ currentSpeechProcess' = v.cur
  /\ phase' = "stopping"
  /\ handlers' = FALSE
  /\ DecoderStopped
  /\ UNCHANGED <<now, observerVars>>

\* the 1 s wait of stop() is over: process.exit(); nothing of the process is left
Exit ==
  /\ phase = "stopping"
  /\ phase' = "exited"
  /\ handlers' = FALSE
  /\ tasks' = <<>>
  /\ isSpeaking' = FALSE
  /\ currentSpeechProcess' = 0
  /\ UNCHANGED <<decoderVars, now, observerVars>>

(***************************************************************************)
(* KeyboardListener                                                        *)
(***************************************************************************)
Decoded(ctrl, alt, buf, last, em) ==
  [ctrl |-> ctrl, alt |-> alt, buf |-> buf, last |-> last, em |-> em]

\* mutant: the combination is matched as a subset (Alt is not looked at)
voiceStatusHotkey_Subset(ctrl, alt, key) ==
  ctrl /\ (key = "NUMPAD DOT" \/ key = "NUMPAD DELETE")

\* CTRL + Numpad Period (Del)
voiceStatusHotkey(ctrl, alt, key) ==
  ctrl /\ ~alt /\ (key = "NUMPAD DOT" \/ key = "NUMPAD DELETE")

\* CTRL + ALT + Numpad 1
powerOnHotkey(ctrl, alt, key) == ctrl /\ alt /\ key = "NUMPAD 1"

\* CTRL + ALT + Numpad 0
powerOffHotkey(ctrl, alt, key) == ctrl /\ alt /\ key = "NUMPAD 0"

\* mutant: a digit exactly at the threshold is already stale
isStale_AtThreshold(currentTime) == currentTime - lastKeyTime >= IdleThreshold

\* mutant: the stale check is missing
isStale_Never(currentTime) == FALSE

\* "Reset buffer if too much time has passed"
isStale(currentTime) == currentTime - lastKeyTime > IdleThreshold

\* mutant: a digit equal to the pending one is taken for a key-repeat and not pushed
pushed_SkipsRepeat(digit, currentTime) ==
  LET kept == IF isStale(currentTime) THEN <<>> ELSE temperatureBuffer
  IN IF kept = <<digit>> THEN kept ELSE Append(kept, digit)

\* the buffer after the stale check and temperatureBuffer.push(digit)
pushed(digit, currentTime) ==
  Append(IF isStale(currentTime) THEN <<>> ELSE temperatureBuffer, digit)

\* mutant: the buffer is not cleared after the emit
digitInput_NoClear(ctrl, alt, digit, currentTime) ==
  LET buf2 == pushed(digit, currentTime)
  IN IF Len(buf2) = 2
       THEN Decoded(ctrl, alt, buf2, currentTime, <<Cmd("setTemperature", parseInt(buf2))>>)
       ELSE Decoded(ctrl, alt, buf2, currentTime, <<>>)

\* mutant: the decoder flushes only a temperature the unit accepts
digitInput_Validates(ctrl, alt, digit, currentTime) ==
  LET buf2 == pushed(digit, currentTime)
      n == parseInt(buf2)
  IN IF Len(buf2) = 2
       THEN Decoded(ctrl, alt, <<>>, currentTime,
                    IF minTemp <= n /\ n <= maxTemp THEN <<Cmd("setTemperature", n)>> ELSE <<>>)
       ELSE Decoded(ctrl, alt, buf2, currentTime, <<>>)

\* the body of `if (numpadMatch)`: the buffer, lastKeyTime and the emit
digitInput(ctrl, alt, digit, currentTime) ==
  LET buf2 == pushed(digit, currentTime)
  IN IF Len(buf2) = 2
       THEN Decoded(ctrl, alt, <<>>, currentTime, <<Cmd("setTemperature", parseInt(buf2))>>)
       ELSE Decoded(ctrl, alt, buf2, currentTime, <<>>)

\* mutant: a hotkey emits and returns without clearing the buffer
hotkeyFired_KeepsBuffer(ctrl, alt, name) ==
  Decoded(ctrl, alt, temperatureBuffer, lastKeyTime, <<Cmd(name, 0)>>)

\* the body of a hotkey branch: emit, temperatureBuffer.length = 0, return
hotkeyFired(ctrl, alt, name) ==
  Decoded(ctrl, alt, <<>>, lastKeyTime, <<Cmd(name, 0)>>)

\* mutant: the digit branch does not look at Alt
handleKeyDown_DigitsUnderAlt(keyName, currentTime) ==
  LET key == ToUpperCase(keyName)
      ctrl == IF key \in CtrlKeys THEN TRUE ELSE ctrlPressed
      alt == IF key \in AltKeys THEN TRUE ELSE altPressed
  IN IF voiceStatusHotkey(ctrl, alt, key)
       THEN hotkeyFired(ctrl, alt, "voiceStatus")
     ELSE IF powerOnHotkey(ctrl, alt, key)
       THEN hotkeyFired(ctrl, alt, "powerOn")
     ELSE IF powerOffHotkey(ctrl, alt, key)
       THEN hotkeyFired(ctrl, alt, "powerOff")
     ELSE IF ctrl /\ NumpadMatch(key) # "null"
       THEN digitInput(ctrl, alt, NumpadMatch(key), currentTime)
     ELSE Decoded(ctrl, alt, temperatureBuffer, lastKeyTime, <<>>)

\* mutant: a modifier DOWN flips its flag
handleKeyDown_Toggles(keyName, currentTime) ==
  LET key == ToUpperCase(keyName)
      ctrl == IF key \in CtrlKeys THEN ~ctrlPressed ELSE ctrlPressed
      alt == IF key \in AltKeys THEN ~altPressed ELSE altPressed
  IN IF voiceStatusHotkey(ctrl, alt, key)
       THEN hotkeyFired(ctrl, alt, "voiceStatus")
     ELSE IF powerOnHotkey(ctrl, alt, key)
       THEN hotkeyFired(ctrl, alt, "powerOn")
     ELSE IF powerOffHotkey(ctrl, alt, key)
       THEN hotkeyFired(ctrl, alt, "powerOff")
     ELSE IF ctrl /\ ~alt /\ NumpadMatch(key) # "null"
       THEN digitInput(ctrl, alt, NumpadMatch(key), currentTime)
     ELSE Decoded(ctrl, alt, temperatureBuffer, lastKeyTime, <<>>)

handleKeyDown(keyName, currentTime) ==
  LET key == ToUpperCase(keyName)
      ctrl == IF key \in CtrlKeys THEN TRUE ELSE ctrlPressed
      alt == IF key \in AltKeys THEN TRUE ELSE altPressed
  IN IF voiceStatusHotkey(ctrl, alt, key)
       THEN hotkeyFired(ctrl, alt, "voiceStatus")
     ELSE IF powerOnHotkey(ctrl, alt, key)
       THEN hotkeyFired(ctrl, alt, "powerOn")
     ELSE IF powerOffHotkey(ctrl, alt, key)
       THEN hotkeyFired(ctrl, alt, "powerOff")
     ELSE IF ctrl /\ ~alt /\ NumpadMatch(key) # "null"
       THEN digitInput(ctrl, alt, NumpadMatch(key), currentTime)
     ELSE Decoded(ctrl, alt, temperatureBuffer, lastKeyTime, <<>>)

\* mutant: releasing Ctrl leaves the buffer alone
ctrlReleased_Kept(buf) == buf

\* the buffer after a Ctrl key was released
ctrlReleased(buf) == IF Len(buf) > 0 THEN <<>> ELSE buf

\* mutant: releasing Alt abandons the pending digit, as releasing Ctrl does
altReleased_Cleared(buf) == <<>>

\* the buffer after an Alt key was released: the branch sets the flag only
altReleased(buf) == buf

\* mutant: releasing Ctrl commits the pending digit as a temperature
handleKeyUp_Flushes(keyName) ==
  LET key == ToUpperCase(keyName)
  IN Decoded(IF key \in CtrlKeys THEN FALSE ELSE ctrlPressed,
             IF key \in AltKeys THEN FALSE ELSE altPressed,
             IF key \in CtrlKeys THEN ctrlReleased(temperatureBuffer)
             ELSE IF key \in AltKeys THEN altReleased(temperatureBuffer)
             ELSE temperatureBuffer,
             lastKeyTime,
             IF key \in CtrlKeys /\ Len(temperatureBuffer) = 1
               THEN <<Cmd("setTemperature", parseInt(temperatureBuffer))>>
               ELSE <<>>)

\* mutant: the release of any key abandons the pending digit
handleKeyUp_AnyKeyClears(keyName) ==
  LET key == ToUpperCase(keyName)
  IN Decoded(IF key \in CtrlKeys THEN FALSE ELSE ctrlPressed,
             IF key \in AltKeys THEN FALSE ELSE altPressed,
             <<>>, lastKeyTime, <<>>)

\* mutant: only the left modifier keys release their flag
handleKeyUp_LeftOnly(keyName) ==
  LET key == ToUpperCase(keyName)
  IN Decoded(IF key = "LEFT CTRL" THEN FALSE ELSE ctrlPressed,
             IF key = "LEFT ALT" THEN FALSE ELSE altPressed,
             IF key = "LEFT CTRL" THEN ctrlReleased(temperatureBuffer)
             ELSE temperatureBuffer,
             lastKeyTime, <<>>)

handleKeyUp(keyName) ==
  LET key == ToUpperCase(keyName)
  IN Decoded(IF key \in CtrlKeys THEN FALSE ELSE ctrlPressed,
             IF key \in AltKeys THEN FALSE ELSE altPressed,
             IF key \in CtrlKeys THEN ctrlReleased(temperatureBuffer)
             ELSE IF key \in AltKeys THEN altReleased(temperatureBuffer)
             ELSE temperatureBuffer,
             lastKeyTime, <<>>)

\* mutant: the listeners are registered from the construction on
Dispatch_FromConstruction(em, jitter) ==
  IF em # <<>> /\ em[1].name \in HandledEvents
    THEN /\ Len(tasks) <= MaxCommands
         /\ Commit(Append(tasks, Handler(NewTask(em[1]), jitter)), Len(tasks) + 1,
                   isSpeaking, currentSpeechProcess)
    ELSE UNCHANGED <<tasks, voiceVars, phase, handlers>>

\* mutant: a handler returns at once while another command is waiting to retry
Dispatch_BusyDrops(em, jitter) ==
  IF em # <<>> /\ handlers /\ em[1].name \in HandledEvents
       /\ ~(\E i \in DOMAIN tasks : i >= 2 /\ tasks[i].pc = "wait")
    THEN /\ Len(tasks) <= MaxCommands
         /\ Commit(Append(tasks, Handler(NewTask(em[1]), jitter)), Len(tasks) + 1,
                   isSpeaking, currentSpeechProcess)
    ELSE UNCHANGED <<tasks, voiceVars, phase, handlers>>

\* EventEmitter.emit: every registered listener of the event is called, to its first await
Dispatch(em, jitter) ==
  IF em # <<>> /\ handlers /\ em[1].name \in HandledEvents
    THEN /\ Len(tasks) <= MaxCommands
         /\ Commit(Append(tasks, Handler(NewTask(em[1]), jitter)), Len(tasks) + 1,
                   isSpeaking, currentSpeechProcess)
    ELSE UNCHANGED <<tasks, voiceVars, phase, handlers>>

\* the scenario observer.  A trail is started by
\*   "up":      Ctrl UP with one pending digit;   then Ctrl DOWN, digit, digit
\*   a hotkey:  it fires with one pending digit;  then modifier events, digit
\*   "altdown": Alt DOWN with one pending digit;  then Alt UP, digit
\* and is dropped by any event that does not continue it.  The first mark holds the
\* pending digit and the time it was accepted.
Mark(k, d, t) == [k |-> k, d |-> d, t |-> t]

HotKinds == {"voiceStatus", "powerOn", "powerOff"}

TrailKind == IF trail = <<>> THEN "none" ELSE trail[1].k

TrailAfter(keyName, state) ==
  LET key == ToUpperCase(keyName)
      digit == NumpadMatch(key)
      pending == Len(temperatureBuffer) = 1
      r == IF state = "DOWN" THEN handleKeyDown(keyName, now) ELSE handleKeyUp(keyName)
      fired == r.em # <<>> /\ r.em[1].name \in HotKinds
      accepted == state = "DOWN" /\ digit # "null" /\ ctrlPressed /\ ~altPressed
      first == temperatureBuffer[1]
  IN IF state = "UP" /\ key \in CtrlKeys /\ pending
       THEN <<Mark("up", first, lastKeyTime)>>
     ELSE IF fired /\ pending
       THEN <<Mark(r.em[1].name, first, lastKeyTime)>>
     ELSE IF state = "DOWN" /\ key \in AltKeys /\ pending
       THEN <<Mark("altdown", first, lastKeyTime)>>
     ELSE IF TrailKind = "up" /\ Len(trail) = 1 /\ state = "DOWN" /\ key \in CtrlKeys
       THEN Append(trail, Mark("down", "", now))
     ELSE IF TrailKind = "up" /\ Len(trail) = 2 /\ accepted
       THEN Append(trail, Mark("digit", digit, now))
     ELSE IF TrailKind = "up" /\ Len(trail) = 3 /\ accepted
             /\ now - trail[3].t <= IdleThreshold
       THEN Append(trail, Mark("digit", digit, now))
     ELSE IF TrailKind \in HotKinds /\ Len(trail) = 1 /\ ~fired
             /\ key \in CtrlKeys \cup AltKeys
       THEN trail
     ELSE IF TrailKind \in HotKinds /\ Len(trail) = 1 /\ accepted
             /\ now - trail[1].t <= IdleThreshold
       THEN Append(trail, Mark("digit", digit, now))
     ELSE IF TrailKind = "altdown" /\ Len(trail) = 1 /\ state = "UP" /\ key \in AltKeys
       THEN Append(trail, Mark("altup", "", now))
     ELSE IF TrailKind = "altdown" /\ Len(trail) = 2 /\ accepted
             /\ now - trail[1].t <= IdleThreshold
       THEN Append(trail, Mark("digit", digit, now))
     ELSE <<>>

\* the callback of listener.addListener: one raw key event
rawKeyEvent(keyName, state, jitter) ==
  /\ phase \in {"starting", "running"}
  /\ LET r == IF state = "DOWN" THEN handleKeyDown(keyName, now) ELSE handleKeyUp(keyName)
     IN /\ ctrlPressed' = r.ctrl
        /\ altPressed' = r.alt
        /\ temperatureBuffer' = r.buf
        /\ lastKeyTime' = r.last
        /\ emitted' = r.em
        /\ Dispatch(r.em, jitter)
  /\ lastEvent' = [key |-> keyName, state |-> state, time |-> now, ctrl |-> ctrlPressed,
                   alt |-> altPressed, buf |-> temperatureBuffer, last |-> lastKeyTime,
                   wait |-> \E i \in DOMAIN tasks : i >= 2 /\ tasks[i].pc = "wait"]
  /\ trail' = TrailAfter(keyName, state)
  /\ UNCHANGED <<now, sample>>

\* mutant: a key reported without a name makes the callback throw (uncaughtException)
KeyEvent_UnknownThrows(keyName, state, jitter) ==
  IF ToUpperCase(keyName) = "UNKNOWN"
    THEN Stop
    ELSE rawKeyEvent(keyName, state, jitter) /\ UNCHANGED keyboard

\* a raw key event of any key
KeyEvent(keyName, state, jitter) ==
  /\ rawKeyEvent(keyName, state, jitter)
  /\ UNCHANGED keyboard

\* the keys whose DOWN and UP events are followed
TrackedKeys == CtrlKeys \cup AltKeys \cup {"NUMPAD 2", "PAUSE"}

Untouched == [status |-> [k \in TrackedKeys |-> "unseen"], repeat |-> FALSE]

\* the keys whose last event was a DOWN
Down == {k \in TrackedKeys : keyboard.status[k] = "down"}

Reported(status, state) ==
  IF state = "DOWN" THEN "down"
  ELSE IF status \in {"unseen", "never"} THEN "never"
  ELSE "up"

\* a raw key event of a tracked key
Press(keyName, state) ==
  /\ keyName \in TrackedKeys
  /\ rawKeyEvent(keyName, state, 0)
  /\ keyboard' =
       [status |-> [keyboard.status EXCEPT ![keyName] = Reported(keyboard.status[keyName], state)],
        repeat |-> lastEvent.key = keyName /\ lastEvent.state = state]

\* time passes
Tick(d) ==
  /\ Alive
  /\ now + d <= MaxTime
  /\ now' = now + d
  /\ UNCHANGED <<decoderVars, observerVars, phase, handlers, tasks, voiceVars>>

\* the listener emits a command: the decoder's state is left out
Emit(cmd, jitter) ==
  /\ phase = "running"
  /\ Dispatch(<<cmd>>, jitter)
  /\ UNCHANGED <<decoderVars, now, observerVars>>

(***************************************************************************)
(* Specifications                                                          *)
(***************************************************************************)
\* a withRetry loop under config.retryDelay = base, before its first failure
Configured(base) == [base |-> base, attempt |-> 0, jitter |-> 0, prev |-> 0, w |-> 0]

\* the loop run on its own: attempt sample.attempt + 1 fails and is not the last one
Backoff(jitter) ==
  /\ sample.attempt + 1 < MaxRetriesLimit
  /\ sample' = [base |-> sample.base, attempt |-> sample.attempt + 1, jitter |-> jitter,
                prev |-> sample.jitter,
                w |-> backoff(sample.base, sample.attempt + 1, jitter)]
  /\ UNCHANGED <<decoderVars, now, lastEvent, emitted, trail, keyboard, phase, handlers, tasks,
                 voiceVars>>

\* after `new ACController()` and the synchronous part of controller.start()
InitController ==
  /\ ctrlPressed = FALSE
  /\ altPressed = FALSE
  /\ temperatureBuffer = <<>>
  /\ lastKeyTime = 0
  /\ now = StartTime
  /\ lastEvent = NoEvent
  /\ emitted = <<>>
  /\ trail = <<>>
  /\ keyboard = Untouched
  /\ phase = "starting"
  /\ handlers = FALSE
  /\ tasks = <<withRetry(NewTask(StartCmd), 0)>>
  /\ isSpeaking = FALSE
  /\ currentSpeechProcess = 0

Init == InitController /\ sample = Configured(retryDelay)

RequestNames == {"GET acStates", "GET measurements", "POST acStates", "togglePower"}
Live == DOMAIN tasks

Keyboard ==
  \/ \E k \in RawKeys, st \in KeyStates, j \in Jitters : KeyEvent(k, st, j)
  \/ \E d \in {IdleThreshold, IdleThreshold + 1} : Tick(d)

Requests ==
  \/ \E i \in Live, r \in RequestNames : RequestOk(i, r)
  \/ \E i \in Live, r \in RequestNames, j \in Jitters : RequestFail(i, r, j)
  \/ \E i \in Live, j \in Jitters : TimerFires(i, j)

Speech ==
  \/ \E i \in Live : Spawn(i)
  \/ \E i \in Live, ok \in BOOLEAN : SpeechClose(i, ok)
  \/ \E i \in Live : SpeechTimeout(i)

Next == Keyboard \/ Requests \/ Speech \/ Stop \/ Exit

Spec == Init /\ [][Next]_vars

\* the decoder alone, while start() has not yet registered the handlers
SpecDecoder == Init /\ [][Keyboard]_vars

\* the decoder under the events of the tracked keys, in any order (UP without DOWN,
\* DOWN after DOWN), while the clock stands still
NextKeys == \E k \in TrackedKeys, st \in KeyStates : Press(k, st)

SpecKeys == Init /\ [][NextKeys]_vars

\* the same under well-paired events: a key goes UP only after its own DOWN
NextPairedKeys ==
  \E k \in TrackedKeys, st \in KeyStates :
    /\ st = "UP" => k \in Down
    /\ Press(k, st)

SpecPairedKeys == Init /\ [][NextPairedKeys]_vars

\* the temperature input: Ctrl and the ten numpad digits, while the clock stands still
DigitKeys ==
  {"NUMPAD 0", "NUMPAD 1", "NUMPAD 2", "NUMPAD 3", "NUMPAD 4", "NUMPAD 5", "NUMPAD 6",
   "NUMPAD 7", "NUMPAD 8", "NUMPAD 9"}

NextDigitKeys == \E k \in DigitKeys \cup {"LEFT CTRL"}, st \in KeyStates : KeyEvent(k, st, 0)

SpecDigitKeys == Init /\ [][NextDigitKeys]_vars

\* a key held down until it repeats: Ctrl, Alt and one numpad digit, in any order,
\* while time passes
RepeatKeys == {"LEFT CTRL", "LEFT ALT", "NUMPAD 2"}

NextRepeatKeys ==
  \/ \E k \in RepeatKeys, st \in KeyStates : Press(k, st)
  \/ \E d \in {IdleThreshold, IdleThreshold + 1} : Tick(d)

SpecRepeatKeys == Init /\ [][NextRepeatKeys]_vars

\* the orchestrator driven by emitted commands, while no signal arrives
NextCommands ==
  \/ \E c \in Commands, j \in Jitters : Emit(c, j)
  \/ Requests
  \/ Speech
  \/ Exit

SpecCommands == Init /\ [][NextCommands]_vars

\* the orchestrator driven by setTemperature commands at and around the bounds
BoundaryTemps == {minTemp - 1, minTemp, maxTemp, maxTemp + 1}

NextSetTemperature ==
  \/ \E n \in BoundaryTemps : Emit(Cmd("setTemperature", n), 0)
  \/ Requests
  \/ Speech
  \/ Exit

SpecSetTemperature == Init /\ [][NextSetTemperature]_vars

\* the decoder and the orchestrator together: a few keys of the numpad, pressed
\* while the clock stands still and no signal arrives
\* (a handler's first attempt draws no jitter: one value stands for all)
ControllerNext(keys) ==
  \/ \E k \in keys, st \in KeyStates : KeyEvent(k, st, 0)
  \/ Requests
  \/ Speech
  \/ Exit

\* Ctrl + Numpad Period
StatusKeys == {"LEFT CTRL", "NUMPAD DOT"}

NextStatusKeys == ControllerNext(StatusKeys)

SpecStatusKeys == Init /\ [][NextStatusKeys]_vars

\* Ctrl + Alt + Numpad 1, Ctrl + Alt + Numpad 0
PowerKeys == {"LEFT CTRL", "LEFT ALT", "NUMPAD 0", "NUMPAD 1"}

NextPowerKeys == ControllerNext(PowerKeys)

SpecPowerKeys == Init /\ [][NextPowerKeys]_vars

\* the decoder and the orchestrator with SIGINT / SIGTERM: Ctrl and one numpad digit
TemperatureKeys == {"LEFT CTRL", "NUMPAD 2"}

NextKeysShutdown == ControllerNext(TemperatureKeys) \/ Stop

SpecKeysShutdown == Init /\ [][NextKeysShutdown]_vars

\* the orchestrator driven by emitted commands, with SIGINT / SIGTERM
NextShutdown == NextCommands \/ Stop

SpecShutdown == Init /\ [][NextShutdown]_vars

\* the backoff computation of withRetry for every valid RETRY_DELAY drawn, every
\* failed attempt but the last, and every jitter drawn
InitBackoff == InitController /\ sample \in {Configured(base) : base \in RetryDelays}

NextBackoff == \E j \in JitterDraws : Backoff(j)

SpecBackoff == InitBackoff /\ [][NextBackoff]_vars

(***************************************************************************)
(* Claims about the orchestrator (SpecCommands)                            *)
(***************************************************************************)
AtRestPcs == {"done", "rejected"}
CommandIds == {i \in DOMAIN tasks : i >= 2}

\* C1: command processing is serial: no later command's handler has been started
\* while an earlier command's handler has not yet returned (or thrown).
C1_SerialProcessing ==
  \A i, j \in CommandIds : i < j => tasks[i].pc \in AtRestPcs

\* C2: every command whose processing completes has made exactly one announce
\* call: no call chain ever makes a second one, and a handler returns (or throws)
\* only out of the one announcement it awaits.
C2_ExactlyOneFeedback ==
  /\ [](\A i \in DOMAIN tasks : Len(tasks[i].fb) <= 1)
  /\ [][\A i \in CommandIds :
          (i \in DOMAIN tasks' /\ tasks[i].pc \notin AtRestPcs /\ tasks'[i].pc \in AtRestPcs)
            => (tasks[i].pc = "speak" /\ Len(tasks[i].fb) = 1)]_vars

C2_Witness ==
  \E i \in CommandIds : tasks[i].pc = "done"

\* C3: an action whose every attempt fails is attempted exactly maxRetries times,
\* never more; then exactly one failure announcement naming the operation is
\* made, and no further attempt or wait of that action follows.
Exhausted(t) == t.fails = maxRetries

C3_ExhaustedRetries ==
  /\ [](\A i \in DOMAIN tasks :
          LET t == tasks[i]
          IN /\ t.tries <= maxRetries
             /\ t.fails <= t.tries
             /\ (t.pc = "wait" => t.fails = t.tries /\ t.fails < maxRetries)
             /\ (\E k \in DOMAIN t.fb : t.fb[k].text = FailedText(t.cmd)) => Exhausted(t)
             /\ Exhausted(t) =>
                  /\ t.tries = maxRetries
                  /\ t.pc = "speak"
                  /\ t.fb = <<[fn |-> "announceError", text |-> FailedText(t.cmd)]>>)
  /\ [][\A i \in DOMAIN tasks :
          (i \in DOMAIN tasks' /\ Exhausted(tasks[i]))
            => tasks'[i].pc \notin {"op", "wait"}]_vars

C3_Witness ==
  \E i \in CommandIds :
    /\ Exhausted(tasks[i])
    /\ tasks[i].tries = maxRetries
    /\ tasks[i].fb = <<[fn |-> "announceError", text |-> "Set temperature failed"]>>

\* C4: success on attempt k short-circuits: attempt k is the last one made, it
\* follows k-1 failed attempts, exactly one success announcement and no failure
\* announcement is made, and no attempt or wait follows.
SuccessCalls == {"announceSuccess", "announceTemperatures"}

C4_SuccessShortCircuits ==
  /\ [](\A i \in DOMAIN tasks :
          LET t == tasks[i]
          IN t.okAt > 0 =>
               /\ t.okAt \in 1..maxRetries
               /\ t.tries = t.okAt
               /\ t.fails = t.okAt - 1
               /\ t.pc = "speak"
               /\ Len(t.fb) = 1
               /\ t.fb[1].fn \in SuccessCalls
               /\ t.fb[1].text # FailedText(t.cmd))
  /\ [][\A i \in DOMAIN tasks :
          (i \in DOMAIN tasks' /\ tasks[i].okAt > 0)
            => tasks'[i].pc \notin {"op", "wait"}]_vars

\* fail, fail, succeed with maxRetries = 3
C4_Witness ==
  \E i \in CommandIds :
    /\ tasks[i].okAt = 3
    /\ tasks[i].fails = 2
    /\ tasks[i].fb = <<[fn |-> "announceSuccess", text |-> "Temperature set to"]>>

\* C5: setTemperature(n) with n outside [minTemp, maxTemp] is rejected at once:
\* operation() is never called, no remote request is ever pending, no backoff
\* wait is set up, and exactly one validation announcement is made.
C5_OutOfRangeRejected ==
  \A i \in DOMAIN tasks :
    LET t == tasks[i]
    IN (t.cmd = "setTemperature" /\ (t.temp < minTemp \/ t.temp > maxTemp)) =>
         /\ t.tries = 0
         /\ t.attempt = 0
         /\ t.pending = {}
         /\ t.delay = 0
         /\ t.pc = "speak"
         /\ t.fb = <<[fn |-> "announceError", text |-> "Temperature must be between"]>>

C5_WitnessBelow ==
  \E i \in CommandIds :
    /\ tasks[i].cmd = "setTemperature" /\ tasks[i].temp < minTemp
    /\ Len(tasks[i].fb) = 1

\* C10: at most one remote state-mutating request is in flight.
InFlightMutations ==
  {i \in DOMAIN tasks : tasks[i].pc = "op" /\ tasks[i].pending \cap MutatingRequests # {}}

C10_OneMutationInFlight == Cardinality(InFlightMutations) <= 1

\* C12: no failure is fatal: once a command has been handled the controller is
\* still running with its handlers registered (no signal arrives in SpecCommands),
\* whatever failed: validation, every attempt, or the speech process.
C12_NoFailureFatal ==
  CommandIds # {} => (phase = "running" /\ handlers)

\* C14: at most one speech process is active at any time.
ActiveSpeech == {i \in DOMAIN tasks : tasks[i].sp = "spawned"}

C14_OneSpeechProcess == Cardinality(ActiveSpeech) <= 1

\* C15: voiceStatus is all-or-nothing: an attempt in which one read fails counts
\* as one failed attempt and announces nothing; announceTemperatures is called
\* only out of an attempt whose other read had already succeeded, by the success
\* of its last outstanding read; when every attempt fails, the one announcement
\* made is the failure announcement.
Announced(t, fn) == \E k \in DOMAIN t.fb : t.fb[k].fn = fn

C15_VoiceStatusAllOrNothing ==
  /\ [](\A i \in DOMAIN tasks :
          LET t == tasks[i]
          IN t.cmd = "voiceStatus" =>
               /\ Announced(t, "announceTemperatures") =>
                    (t.okAt > 0 /\ Len(t.fb) = 1 /\ t.fails = t.okAt - 1)
               /\ t.partial => t.fails >= 1
               /\ (t.partial /\ t.okAt = 0) => ~Announced(t, "announceTemperatures")
               /\ t.fails = maxRetries =>
                    t.fb = <<[fn |-> "announceError", text |-> "Get status failed"]>>)
  /\ [][\A i \in DOMAIN tasks :
          (/\ i \in DOMAIN tasks'
           /\ tasks[i].cmd = "voiceStatus"
           /\ ~Announced(tasks[i], "announceTemperatures")
           /\ Announced(tasks'[i], "announceTemperatures"))
            => (tasks[i].pc = "op" /\ Cardinality(tasks[i].pending) = 1)]_vars

\* the state read succeeded, the room-temperature read failed: a wait, no announcement
C15_Witness ==
  \E i \in CommandIds :
    /\ tasks[i].cmd = "voiceStatus" /\ tasks[i].partial
    /\ tasks[i].pc = "wait" /\ tasks[i].fails = 1 /\ tasks[i].fb = <<>>

\* C13: once stop() has begun, no further attempt of any action is started, no
\* remote request is issued and no announce call is made.
C13_ShutdownAbandonsWork ==
  [][phase = "stopping" =>
       \A i \in DOMAIN tasks :
         i \in DOMAIN tasks' =>
           /\ tasks'[i].tries <= tasks[i].tries
           /\ tasks'[i].pending \subseteq tasks[i].pending
           /\ Len(tasks'[i].fb) <= Len(tasks[i].fb)]_vars

(***************************************************************************)
(* Claims about the decoder and the orchestrator together                  *)
(***************************************************************************)
\* the newest handler invocation made its first attempt (or was rejected by the
\* range check and announced that)
Attempted(t) ==
  \/ t.tries = 1 /\ t.pc = "op" /\ t.pending = FirstRequests(t.cmd)
  \/ /\ t.cmd = "setTemperature" /\ (t.temp < minTemp \/ t.temp > maxTemp)
     /\ t.pc = "speak" /\ Len(t.fb) = 1

C17_PowerCommandsDispatched ==
  [][(/\ handlers
      /\ lastEvent' # lastEvent
      /\ emitted' # <<>>
      /\ emitted'[1].name \in {"powerOn", "powerOff", "toggle"})
       => /\ Len(tasks') = Len(tasks) + 1
          /\ tasks'[Len(tasks')].tries = 1]_vars

(***************************************************************************)
(* Claims about the backoff computation (SpecBackoff)                      *)
(***************************************************************************)
\* C16: the wait after the k-th failed attempt lies between
\* min(baseDelay*2^(k-1), maxDelay) and min(baseDelay*2^(k-1) + 1000, maxDelay),
\* and so never exceeds maxDelay, for every valid baseDelay and every jitter drawn.
C16_BackoffWithinBounds ==
  sample.attempt >= 1 =>
    LET k == sample.attempt
        exp == sample.base * Pow2(k - 1)
    IN /\ sample.w >= (IF exp <= MaxBackoff THEN exp ELSE MaxBackoff)
       /\ sample.w <= (IF exp + 1000 <= MaxBackoff THEN exp + 1000 ELSE MaxBackoff)
       /\ sample.w <= MaxBackoff

\* the default RETRY_DELAY: the fourth wait (16000 ms before the cap) is capped,
\* and its jitter differs from the one drawn for the third wait
C16_Witness ==
  /\ sample.base = 2000 /\ sample.attempt = 4
  /\ sample.w = 10000
  /\ sample.jitter # sample.prev

\* C29: setTemperature(n) with minTemp <= n <= maxTemp, the bounds included, is
\* never rejected by validation: its handler makes no validation announcement and
\* starts, in the handling of the event, the first attempt of the remote action
\* (the read of the current state, then the write), which carries exactly n as
\* long as it runs.
InRange(t) == t.cmd = "setTemperature" /\ minTemp <= t.temp /\ t.temp <= maxTemp

C29_InRangeDispatched ==
  /\ [][\A i \in DOMAIN tasks' :
          (i \notin DOMAIN tasks /\ InRange(tasks'[i])) =>
            /\ tasks'[i].pc = "op" /\ tasks'[i].tries = 1 /\ tasks'[i].attempt = 1
            /\ tasks'[i].pending = {"GET acStates"}
            /\ tasks'[i].fb = <<>>]_vars
  /\ [][\A i \in DOMAIN tasks' :
          InRange(tasks'[i]) =>
            /\ \A k \in DOMAIN tasks'[i].fb :
                 tasks'[i].fb[k].text # "Temperature must be between"
            /\ (i \in DOMAIN tasks /\ tasks[i].cmd = "setTemperature") =>
                 tasks'[i].temp = tasks[i].temp]_vars
  /\ [][\A i \in DOMAIN tasks :
          (i \in DOMAIN tasks' /\ InRange(tasks[i]) /\ tasks[i].pc = "op"
             /\ tasks[i].pending = {"GET acStates"} /\ tasks'[i].pc = "op"
             /\ tasks'[i] # tasks[i])
            => tasks'[i].pending = {"POST acStates"}]_vars

\* both bounds are being written to the unit
C29_Witness ==
  \E i, j \in CommandIds :
    /\ tasks[i].cmd = "setTemperature" /\ tasks[i].temp = minTemp
    /\ tasks[j].cmd = "setTemperature" /\ tasks[j].temp = maxTemp
    /\ tasks[i].pending = {"POST acStates"} /\ tasks[j].pending = {"POST acStates"}

\* C30: attempts and waits alternate: the first attempt of an action is made in
\* the step that starts it, with no wait before it; an attempt other than the
\* first starts only out of a backoff wait, and a wait ends only in the next
\* attempt; a wait starts only out of a failed attempt that is not the last one;
\* the maxRetries-th failure goes directly to the failure announcement.
C30_AttemptsAndWaitsAlternate ==
  /\ [][\A i \in DOMAIN tasks' :
          LET new == tasks'[i]
          IN IF i \notin DOMAIN tasks
               THEN /\ new.pc # "wait"
                    /\ new.delay = 0
                    /\ new.tries <= 1
                    /\ new.tries = 1 => (new.pc = "op" /\ new.fails = 0)
               ELSE LET old == tasks[i]
                    IN /\ new.tries > old.tries =>
                            (old.pc = "wait" /\ new.tries = old.tries + 1 /\ new.pc = "op")
                       /\ (old.pc = "wait" /\ new # old) =>
                            (new.pc = "op" /\ new.tries = old.tries + 1 /\ new.delay = 0)
                       /\ (new.pc = "wait" /\ old.pc # "wait") =>
                            /\ old.pc = "op"
                            /\ new.fails = old.fails + 1
                            /\ new.fails = new.tries
                            /\ new.fails < maxRetries
                            /\ new.delay > 0
                       /\ (new.fails > old.fails /\ new.fails = maxRetries) =>
                            /\ new.pc = "speak"
                            /\ new.delay = 0
                            /\ new.fb = <<[fn |-> "announceError",
                                            text |-> FailedText(new.cmd)]>>]_vars
  /\ [][\A i \in DOMAIN tasks :
          (tasks[i].fails = maxRetries /\ i \in DOMAIN tasks') =>
            tasks'[i].pc # "wait"]_vars

\* the second wait of an action: two attempts failed, the third is still to come
C30_Witness ==
  \E i \in CommandIds :
    /\ tasks[i].pc = "wait"
    /\ tasks[i].tries = 2 /\ tasks[i].fails = 2
    /\ tasks[i].delay >= 2 * retryDelay

\* C33: remote writes follow the order of the commands: the write of an in-range
\* setTemperature command never succeeds after the write of a setTemperature
\* command emitted later than it has succeeded (so that, when both succeed, the
\* later command's value is the one left on the unit).
Written(t) == t.cmd = "setTemperature" /\ t.okAt > 0

C33_WritesFollowCommandOrder ==
  [][\A i, j \in CommandIds :
       (i < j /\ i \in DOMAIN tasks' /\ InRange(tasks[i]) /\ Written(tasks[j])
          /\ tasks[j].temp # tasks[i].temp)
         => ~(~Written(tasks[i]) /\ Written(tasks'[i]))]_vars

\* C34: every promise returned by speak() settles, also when its announcement is
\* superseded, stopped or cut by the 30 s timeout: no call chain is left awaiting
\* a speak() promise that can no longer resolve or reject.
C34_SpeakSettles ==
  \A i \in DOMAIN tasks : tasks[i].pc # "hung"

\* C35: when VoiceFeedback.stop() has returned (called by controller.stop()), no
\* speak() call made before it still has a speech process running or still to be
\* spawned, also when stop() falls between the call of speak() and the spawn.
C35_StopLeavesNoSpeech ==
  [][(phase # "stopping" /\ phase' = "stopping") =>
       \A i \in DOMAIN tasks' : tasks'[i].sp \notin {"import", "spawned"}]_vars

\* C36: while start() has not registered the handlers, a decoded command starts
\* no call chain (so no remote call and no announcement is made for it): start()
\* is the only one; the step that registers the handlers starts none either (no
\* replay), and later a call chain is started only by the event that emits its
\* command; once the initial connection check has failed maxRetries times the
\* handlers are never registered.
C36_NoHandlersBeforeStart ==
  [][/\ ~handlers =>
          /\ Len(tasks') <= Len(tasks)
          /\ (phase' = "starting" => (Len(tasks') = 1 /\ tasks'[1].cmd \in {"start", "none"}))
     /\ Len(tasks') > Len(tasks) =>
          /\ handlers
          /\ Len(tasks') = Len(tasks) + 1
          /\ \A i \in DOMAIN tasks : tasks'[i] = tasks[i]
          /\ emitted' # <<>>
          /\ tasks'[Len(tasks')].cmd \in {emitted'[1].name, "none"}
     /\ (tasks # <<>> /\ tasks[1].cmd = "start" /\ Exhausted(tasks[1])) =>
          (~handlers' /\ phase' \in {"starting", "exited"})]_vars

\* Ctrl + Numpad Period was decoded during the connection check; the handlers are
\* registered now and no call chain was started for it
C36_Witness ==
  /\ handlers /\ phase = "running"
  /\ emitted = <<Cmd("voiceStatus", 0)>>
  /\ Len(tasks) = 1

\* C37: once KeyboardListener.stop() has run (in controller.stop()), both modifier
\* flags are false and the buffer is empty; from then on no raw event is handled,
\* nothing is emitted and no handler invocation is started.
Stopped(ph) == ph \in {"stopping", "exited"}

LastKey == ToUpperCase(lastEvent.key)
LastDigit == NumpadMatch(LastKey)
\* the last raw event was a numpad digit DOWN with Ctrl held and Alt not held
DigitEvent ==
  /\ lastEvent.state = "DOWN"
  /\ LastDigit # "null"
  /\ lastEvent.ctrl /\ ~lastEvent.alt

\* C6: with Ctrl held and Alt not held, a digit DOWN on an empty buffer leaves
\* exactly that digit pending and emits nothing; a second digit DOWN no more than
\* 1000 ms later emits exactly setTemperature(10*d1+d2) in the handling of that
\* event and leaves the buffer empty.
C6_TwoDigitsCombine ==
  DigitEvent =>
    /\ lastEvent.buf = <<>> =>
         /\ temperatureBuffer = <<LastDigit>>
         /\ emitted = <<>>
         /\ lastKeyTime = lastEvent.time
    /\ (Len(lastEvent.buf) = 1 /\ lastEvent.time - lastEvent.last <= 1000) =>
         /\ emitted = <<Cmd("setTemperature",
                            10 * DigitValue(lastEvent.buf[1]) + DigitValue(LastDigit))>>
         /\ temperatureBuffer = <<>>

\* digits "2" then "5", exactly 1000 ms apart
C6_Witness ==
  /\ DigitEvent
  /\ lastEvent.buf = <<"2">> /\ LastDigit = "5"
  /\ lastEvent.time - lastEvent.last = 1000
  /\ emitted = <<Cmd("setTemperature", 25)>>

\* C7: on a key DOWN, voiceStatus fires iff the key is NUMPAD DOT or NUMPAD DELETE
\* with the Ctrl flag set and the Alt flag clear, powerOn iff the key is NUMPAD 1
\* with both flags set, powerOff iff the key is NUMPAD 0 with both flags set;
\* the flags are those the modifier events before the trigger key left.
Fired(name) == \E k \in DOMAIN emitted : emitted[k].name = name

C8_StaleDigitDiscarded ==
  /\ []((DigitEvent /\ Len(lastEvent.buf) = 1
           /\ lastEvent.time - lastEvent.last > 1000) =>
          /\ emitted = <<>>
          /\ temperatureBuffer = <<LastDigit>>)
  /\ [][now' # now =>
          UNCHANGED <<decoderVars, emitted, lastEvent, tasks>>]_vars

C8_Witness ==
  /\ DigitEvent
  /\ lastEvent.buf = <<"2">> /\ LastDigit = "5"
  /\ lastEvent.time - lastEvent.last = 1001
  /\ temperatureBuffer = <<"5">>

\* C9: a Ctrl UP (left or right) empties the buffer and emits nothing; after a
\* Ctrl UP that found one pending digit, the events Ctrl DOWN, digit a, digit b
\* (b within the threshold of a) leave a alone in the buffer and then emit
\* setTemperature(10*a+b).
C9_CtrlReleaseDiscards ==
  /\ (lastEvent.state = "UP" /\ LastKey \in CtrlKeys) =>
       (temperatureBuffer = <<>> /\ ~ctrlPressed /\ emitted = <<>>)
  /\ (TrailKind = "up" /\ Len(trail) = 3) =>
       (temperatureBuffer = <<trail[3].d>> /\ emitted = <<>>)
  /\ (TrailKind = "up" /\ Len(trail) = 4) =>
       /\ emitted = <<Cmd("setTemperature",
                          10 * DigitValue(trail[3].d) + DigitValue(trail[4].d))>>
       /\ temperatureBuffer = <<>>

\* the whole scenario within 1000 ms of the discarded digit, which differs from a and b
C9_Witness ==
  /\ TrailKind = "up" /\ Len(trail) = 4
  /\ trail[4].t - trail[1].t <= 1000
  /\ trail[1].d \notin {trail[3].d, trail[4].d}

\* C18: the digit buffer never holds more than 2 digits, not even inside the
\* handling of an event (after the push), and it holds at most 1 whenever an
\* event handler has returned.
C18_BufferBound ==
  /\ Len(temperatureBuffer) <= 1
  /\ \A d \in DigitChars : Len(pushed(d, now)) <= 2

\* a second digit was pushed, flushed and cleared in one event handling
C18_Witness ==
  /\ DigitEvent
  /\ lastEvent.buf = <<"1">> /\ LastDigit = "1"
  /\ lastEvent.time - lastEvent.last <= 1000
  /\ emitted # <<>>
  /\ temperatureBuffer = <<>>

\* C19: a hotkey that fires leaves the buffer empty; a digit accepted after a
\* hotkey fired over a pending digit d1, within 1000 ms of d1, emits nothing and
\* is alone in the buffer.
C19_HotkeyEmptiesBuffer ==
  /\ (lastEvent.state = "DOWN" /\ \E name \in HotKinds : Fired(name)) =>
       temperatureBuffer = <<>>
  /\ (TrailKind \in HotKinds /\ Len(trail) = 2) =>
       (emitted = <<>> /\ temperatureBuffer = <<trail[2].d>>)

\* Ctrl+d1, Alt DOWN, Numpad 1 (powerOn fires), Alt UP, d2 within 1000 ms of d1
C19_Witness ==
  /\ TrailKind = "powerOn" /\ Len(trail) = 2
  /\ trail[2].t - trail[1].t <= 1000
  /\ trail[1].d # trail[2].d
  /\ temperatureBuffer = <<trail[2].d>>

\* C20: an Alt UP clears the Alt flag and changes nothing else (buffer, timestamp
\* of the last digit, Ctrl flag) and emits nothing; Ctrl+d1, Alt DOWN, Alt UP, d2
\* with d2 within 1000 ms of d1 emits setTemperature(10*d1+d2).
C20_AltReleaseFrame ==
  /\ (lastEvent.state = "UP" /\ LastKey \in AltKeys) =>
       /\ ~altPressed
       /\ ctrlPressed = lastEvent.ctrl
       /\ temperatureBuffer = lastEvent.buf
       /\ lastKeyTime = lastEvent.last
       /\ emitted = <<>>
  /\ (TrailKind = "altdown" /\ Len(trail) = 3) =>
       /\ emitted = <<Cmd("setTemperature",
                          10 * DigitValue(trail[1].d) + DigitValue(trail[3].d))>>
       /\ temperatureBuffer = <<>>

C20_Witness ==
  /\ TrailKind = "altdown" /\ Len(trail) = 3
  /\ trail[1].d = "2" /\ trail[3].d = "5"
  /\ emitted = <<Cmd("setTemperature", 25)>>

\* C27: a raw event makes the decoder emit no Command or one, never more: a DOWN
\* emits at most one of voiceStatus, powerOn, powerOff, setTemperature(n), and an
\* UP emits none.
C27_AtMostOneCommand ==
  /\ Len(emitted) <= 1
  /\ \A k \in DOMAIN emitted :
       emitted[k].name \in HotKinds \cup {"setTemperature"}
  /\ lastEvent.state = "UP" => emitted = <<>>
  /\ \A k \in RawKeys :
       /\ Len(handleKeyDown(k, now).em) <= 1
       /\ handleKeyUp(k).em = <<>>

\* NUMPAD 0 with Ctrl and Alt held, over a pending digit: powerOff alone, and the
\* pending digit is not flushed with it
C27_Witness ==
  /\ lastEvent.state = "DOWN" /\ LastKey = "NUMPAD 0"
  /\ Len(lastEvent.buf) = 1
  /\ emitted = <<Cmd("powerOff", 0)>>

\* C28: the decoder is total: in every reachable state every raw event (any key
\* name, known or not, DOWN or UP, paired or not, repeated or not) can be handled
\* and leaves a defined decoder state; no event stops the listener or the process.
C28_DecoderTotal ==
  /\ phase = "starting"
  /\ ctrlPressed \in BOOLEAN /\ altPressed \in BOOLEAN
  /\ temperatureBuffer \in {<<>>} \cup {<<d>> : d \in DigitChars}
  /\ lastKeyTime \in {0} \cup StartTime..MaxTime
  /\ \A k \in RawKeys, st \in KeyStates : ENABLED KeyEvent(k, st, 0)

\* an UP of a key reported without a name, over a pending digit
C28_Witness ==
  /\ lastEvent.key = "UNKNOWN" /\ lastEvent.state = "UP"
  /\ temperatureBuffer # <<>> /\ temperatureBuffer = lastEvent.buf
  /\ phase = "starting"

(***************************************************************************)
(* Claims about the decoder under unpaired and repeated events (SpecKeys)  *)
(***************************************************************************)
\* the values a handler can leave in the decoder
DecodedStates ==
  [ctrl : BOOLEAN, alt : BOOLEAN, buf : {<<>>} \cup {<<d>> : d \in DigitChars},
   last : {0} \cup StartTime..MaxTime,
   em : {<<>>} \cup {<<c>> : c \in {Cmd(n, 0) : n \in HotKinds}
                              \cup {Cmd("setTemperature", n) : n \in 0..99}}]

\* C21: no modifier flag stays stuck: in every reachable state, also after an UP
\* that was missed or a DOWN that came twice, a Ctrl UP leaves ctrlPressed false
\* and an Alt UP leaves altPressed false; every event, in any order, is handled to
\* a defined decoder state, and none ends the process.
C21_NoStuckModifier ==
  /\ (lastEvent.state = "UP" /\ ToUpperCase(lastEvent.key) \in CtrlKeys) => ~ctrlPressed
  /\ (lastEvent.state = "UP" /\ ToUpperCase(lastEvent.key) \in AltKeys) => ~altPressed
  /\ \A k \in RawKeys :
       /\ ToUpperCase(k) \in CtrlKeys => ~handleKeyUp(k).ctrl
       /\ ToUpperCase(k) \in AltKeys => ~handleKeyUp(k).alt
       /\ handleKeyUp(k) \in DecodedStates
       /\ handleKeyDown(k, now) \in DecodedStates
  /\ phase = "starting"

\* RIGHT CTRL goes UP though its DOWN never came, while LEFT CTRL, which set the
\* flag, is still down, and LEFT ALT has gone down and up again
C21_Witness ==
  /\ lastEvent.state = "UP" /\ lastEvent.key = "RIGHT CTRL"
  /\ keyboard.status["RIGHT CTRL"] = "never"
  /\ keyboard.status["LEFT CTRL"] = "down"
  /\ keyboard.status["LEFT ALT"] = "up"
  /\ lastEvent.ctrl /\ ~ctrlPressed /\ ~altPressed

\* C22: under well-paired events (a key's UP only after its own DOWN) of the
\* tracked keys, after every event ctrlPressed is true iff a Ctrl key is down and
\* altPressed is true iff an Alt key is down.
C22_FlagsReflectKeys ==
  /\ ctrlPressed <=> Down \cap CtrlKeys # {}
  /\ altPressed <=> Down \cap AltKeys # {}

\* the decoder is as the last event found it
Untouching ==
  /\ ctrlPressed = lastEvent.ctrl
  /\ altPressed = lastEvent.alt
  /\ temperatureBuffer = lastEvent.buf
  /\ lastKeyTime = lastEvent.last

\* C23: an UP of a key of which no DOWN ever came is ignored: for a non-modifier
\* key both flags, the buffer and the timestamp are as before and nothing is
\* emitted; for a modifier key whose flag is already false, with an empty buffer,
\* the state is as before; the process goes on.
C23_StrayUpIgnored ==
  (lastEvent.state = "UP" /\ keyboard.status[lastEvent.key] = "never") =>
    /\ lastEvent.key \notin CtrlKeys \cup AltKeys => (Untouching /\ emitted = <<>>)
    /\ (lastEvent.key \in CtrlKeys /\ ~lastEvent.ctrl /\ lastEvent.buf = <<>>) => Untouching
    /\ (lastEvent.key \in AltKeys /\ ~lastEvent.alt /\ lastEvent.buf = <<>>) => Untouching
    /\ phase = "starting"

\* PAUSE goes UP, never seen DOWN, while Ctrl is held and a digit is pending
C23_Witness ==
  /\ lastEvent.state = "UP" /\ lastEvent.key = "PAUSE"
  /\ keyboard.status["PAUSE"] = "never"
  /\ ctrlPressed /\ temperatureBuffer = <<"2">> /\ lastKeyTime = now

(***************************************************************************)
(* Claims about key-repeat (SpecRepeatKeys, SpecKeys)                      *)
(***************************************************************************)
\* C24: with Ctrl held and Alt not held, a DOWN of numpad digit d that repeats
\* the event before it (no UP in between), no more than 1000 ms after it, appends
\* d like a fresh press: on an empty buffer it leaves [d] and emits nothing, on
\* [d] it emits setTemperature(11*d) and leaves the buffer empty; so the buffer
\* alternates and every second repeat emits.
C24_DigitRepeatAppends ==
  (DigitEvent /\ keyboard.repeat /\ lastEvent.time - lastEvent.last <= 1000) =>
    /\ lastKeyTime = lastEvent.time
    /\ \/ /\ lastEvent.buf = <<>>
          /\ temperatureBuffer = <<LastDigit>>
          /\ emitted = <<>>
       \/ /\ lastEvent.buf = <<LastDigit>>
          /\ temperatureBuffer = <<>>
          /\ emitted = <<Cmd("setTemperature", 11 * DigitValue(LastDigit))>>

\* a repeat of NUMPAD 2 exactly 1000 ms after the DOWN before it emits 22
C24_Witness ==
  /\ DigitEvent /\ keyboard.repeat
  /\ lastEvent.key = "NUMPAD 2"
  /\ lastEvent.time - lastEvent.last = 1000
  /\ emitted = <<Cmd("setTemperature", 22)>>

\* C25: a DOWN of a Ctrl or Alt key that repeats the event before it (no UP in
\* between) leaves the flags, the buffer and the timestamp as the first DOWN left
\* them, and emits nothing.
C25_ModifierRepeatIdempotent ==
  (lastEvent.state = "DOWN" /\ lastEvent.key \in CtrlKeys \cup AltKeys /\ keyboard.repeat) =>
    (Untouching /\ emitted = <<>>)

\* LEFT ALT repeats while Ctrl is held and a digit is pending
C25_Witness ==
  /\ lastEvent.state = "DOWN" /\ lastEvent.key = "LEFT ALT" /\ keyboard.repeat
  /\ ctrlPressed /\ altPressed /\ temperatureBuffer = <<"2">>

(***************************************************************************)
(* Claims about the emitted temperature (SpecDigitKeys)                    *)
(***************************************************************************)
\* C26: every setTemperature(n) the decoder emits has 0 <= n <= 99, and no other
\* bound is applied: whenever a second digit d2 is accepted no more than 1000 ms
\* after a pending d1, setTemperature(10*d1+d2) is emitted, for every pair of
\* digits, also below minTemp and above maxTemp.
C26_OnlyTwoDigitBound ==
  /\ \A k \in DOMAIN emitted :
       emitted[k].name = "setTemperature" => emitted[k].arg \in 0..99
  /\ \A d1, d2 \in DigitChars :
       (DigitEvent /\ lastEvent.buf = <<d1>> /\ LastDigit = d2
          /\ lastEvent.time - lastEvent.last <= 1000) =>
         emitted = <<Cmd("setTemperature", 10 * DigitValue(d1) + DigitValue(d2))>>

\* "9" then "9": 99 is emitted, far above maxTemp
C26_Witness ==
  /\ DigitEvent /\ lastEvent.buf = <<"9">> /\ LastDigit = "9"
  /\ emitted = <<Cmd("setTemperature", 99)>>
  /\ 99 > maxTemp

(***************************************************************************)
(* Claims about the idle threshold and the modifier guard (SpecDecoder)    *)
(***************************************************************************)
\* C31: the idle threshold is inclusive: a qualifying digit d2 that arrives exactly
\* 1000 ms after a pending d1 combines with it (setTemperature(10*d1+d2) is
\* emitted, the buffer is left empty); one that arrives 1001 ms or more after it
\* emits nothing and is left alone in the buffer as the new first digit, with
\* its own timestamp.
C31_ThresholdBoundary ==
  \A d1 \in DigitChars :
    (DigitEvent /\ lastEvent.buf = <<d1>>) =>
      /\ lastEvent.time - lastEvent.last = 1000 =>
           /\ emitted = <<Cmd("setTemperature", 10 * DigitValue(d1) + DigitValue(LastDigit))>>
           /\ temperatureBuffer = <<>>
      /\ lastEvent.time - lastEvent.last >= 1001 =>
           /\ emitted = <<>>
           /\ temperatureBuffer = <<LastDigit>>
           /\ lastKeyTime = lastEvent.time

\* "1", then "0" 1001 ms later: no 10 is emitted, "0" is pending
C31_Witness ==
  /\ DigitEvent
  /\ lastEvent.buf = <<"1">> /\ LastDigit = "0"
  /\ lastEvent.time - lastEvent.last = 1001
  /\ emitted = <<>> /\ temperatureBuffer = <<"0">>

\* C32: a numpad digit DOWN is taken into the buffer iff the Ctrl flag is set and
\* the Alt flag is clear at that event: then the digit is pushed (it is pending, or
\* it completed a pair that was flushed) and the timestamp is the event's; with
\* Ctrl not held or Alt held nothing is pushed, no temperature is emitted, the
\* timestamp is unchanged, and the buffer is unchanged unless Ctrl+Alt+Numpad 0/1
\* fired and cleared it.
C32_DigitNeedsCtrlWithoutAlt ==
  (lastEvent.state = "DOWN" /\ LastDigit # "null") =>
    IF lastEvent.ctrl /\ ~lastEvent.alt
      THEN /\ lastKeyTime = lastEvent.time
           /\ \/ temperatureBuffer = <<LastDigit>> /\ emitted = <<>>
              \/ /\ temperatureBuffer = <<>>
                 /\ Len(lastEvent.buf) = 1
                 /\ emitted = <<Cmd("setTemperature",
                                    parseInt(Append(lastEvent.buf, LastDigit)))>>
      ELSE /\ lastKeyTime = lastEvent.last
           /\ ~Fired("setTemperature")
           /\ \/ temperatureBuffer = lastEvent.buf /\ emitted = <<>>
              \/ /\ lastEvent.ctrl /\ lastEvent.alt
                 /\ LastKey \in {"NUMPAD 0", "NUMPAD 1"}
                 /\ temperatureBuffer = <<>>
                 /\ \E name \in {"powerOn", "powerOff"} : emitted = <<Cmd(name, 0)>>

\* NUMPAD 2 with Ctrl and Alt both held, over a pending "5": nothing happens
C32_Witness ==
  /\ lastEvent.state = "DOWN" /\ LastKey = "NUMPAD 2"
  /\ lastEvent.ctrl /\ lastEvent.alt
  /\ lastEvent.buf = <<"5">> /\ temperatureBuffer = <<"5">>
  /\ lastKeyTime = lastEvent.last

====
